---------------------------- MODULE Spec2Model ----------------------------
(***************************************************************************)
(* The scripts of leptos-motion: the version-consistency checker           *)
(* (scripts/check-version-consistency.py) and the three development HTTP   *)
(* servers (examples/*/serve.py, examples/webgl-demo/server.py).           *)
(* One run of one script is one behaviour: Init picks the script and the   *)
(* environment it is started in, the actions are the script's steps.       *)
(***************************************************************************)
EXTENDS Naturals, Sequences, FiniteSets

VARIABLES
    script,             \* which of the four scripts this process runs
    pc,                 \* the position of the process in the script
    stdout,             \* the lines printed to standard output, in order
    stderr,             \* the lines written to standard error, in order
    exit_status,        \* Running until the process has exited, then Exited(status)
    workspace_version,  \* checker: the value read from workspace.package.version
    idx,                \* checker: the position of the for loop in crates
    examined,           \* checker: the member manifests the loop has looked at, in order
    root_manifest,      \* checker: the root Cargo.toml as it was read
    pkg_exists,         \* server: whether ./pkg exists in the serving root
    default_wasm,       \* server: whether the interpreter's default MIME table has .wasm
    wasm_registered,    \* server: whether mimetypes.add_type registered .wasm
    listener,           \* server: "unbound", "bound" or "closed"
    browser_opened,     \* server: whether webbrowser.open has been called
    responses,          \* server: the responses written, in order
    outcomes,           \* server: per request handled, "ok" or "error"
    interrupted_at      \* server: "never", or where the process was when the
                        \* operator interrupt arrived

vars == <<script, pc, stdout, stderr, exit_status, workspace_version, idx,
          examined, root_manifest, pkg_exists, default_wasm, wasm_registered,
          listener, browser_opened, responses, outcomes, interrupted_at>>

checker_vars == <<workspace_version, idx, examined, root_manifest>>

server_vars == <<pkg_exists, default_wasm, wasm_registered, listener,
                 browser_opened, responses, outcomes, interrupted_at>>

Scripts == {"check-version-consistency", "capability-showcase",
            "comprehensive-demo", "webgl-demo"}

Servers == Scripts \ {"check-version-consistency"}

\* The most requests one run of a server handles.
MaxRequests == 2

(***************************************************************************)
(* Process exit, as the interpreter does it.                               *)
(***************************************************************************)

Running == <<>>

Exited(status) == <<status>>

\* An exception nobody catches: the traceback goes to stderr, the status is 1.
UncaughtException(name) ==
    /\ stderr' = Append(stderr, [line |-> "Traceback", exception |-> name])
    /\ exit_status' = Exited(1)
    /\ pc' = "exited"

(***************************************************************************)
(* scripts/check-version-consistency.py                                    *)
(***************************************************************************)

crates == <<"leptos-motion-core", "leptos-motion-dom", "leptos-motion-gestures",
            "leptos-motion-layout", "leptos-motion-scroll", "leptos-motion-macros",
            "leptos-motion">>

crate_path(crate) == "crates/" \o crate \o "/Cargo.toml"

\* The version strings manifests are drawn from.
Versions == {"1.2.0", "1.1.9"}

\* A TOML value found at a version key: a string, or a table with some keys.
StrValue(s) == [type |-> "str", s |-> s, keys |-> {}]
TableValue(keys) == [type |-> "table", s |-> "", keys |-> keys]

Values == {StrValue(s) : s \in Versions}
            \cup {TableValue({"workspace"}), TableValue({"path"})}

NoValue == [type |-> "none", s |-> "", keys |-> {}]

\* A manifest as the script can find it: absent, unparsable, parsed without
\* the version key, or parsed with a value at the version key.
Manifests ==
    {[file |-> "missing", has_version |-> FALSE, version |-> NoValue],
     [file |-> "malformed", has_version |-> FALSE, version |-> NoValue],
     [file |-> "parsed", has_version |-> FALSE, version |-> NoValue]}
    \cup {[file |-> "parsed", has_version |-> TRUE, version |-> v] : v \in Values}

NotRead == [file |-> "unread", has_version |-> FALSE, version |-> NoValue]

\* Mutant: the test asks for a string where the code asks for a dict.
IsWorkspaceReferenceOfStr(crate_version) ==
    crate_version.type = "str" /\ "workspace" \in crate_version.keys

\* isinstance(crate_version, dict) and "workspace" in crate_version
IsWorkspaceReference(crate_version) ==
    crate_version.type = "table" /\ "workspace" \in crate_version.keys

WarningLine(path) == [line |-> "Warning: not found, skipping...", path |-> path]

MismatchLine(crate, crate_version, ws_version) ==
    [line |-> "Version mismatch", crate |-> crate, has |-> crate_version,
     workspace |-> ws_version]

SuccessLine == [line |-> "All versions are consistent!"]

\* Lines 12-15: open and parse Cargo.toml, take workspace.package.version.
ReadWorkspace ==
    /\ script = "check-version-consistency"
    /\ pc = "read_workspace"
    /\ \E m \in Manifests :
         /\ root_manifest' = m
         /\ IF m.file = "missing"
              THEN UncaughtException("FileNotFoundError")
                   /\ UNCHANGED workspace_version
            ELSE IF m.file = "malformed"
              THEN UncaughtException("TomlDecodeError")
                   /\ UNCHANGED workspace_version
            ELSE IF ~m.has_version
              THEN UncaughtException("KeyError")
                   /\ UNCHANGED workspace_version
            ELSE /\ workspace_version' = m.version
                 /\ pc' = "for_crate"
                 /\ UNCHANGED <<stderr, exit_status>>
    /\ UNCHANGED <<script, stdout, idx, examined>>
    /\ UNCHANGED server_vars

\* Mutant: a mismatch is printed nowhere and the loop goes on.
CrateVerdictNoExit(m, ws_version) ==
    IF m.file = "missing" THEN "skip"
    ELSE IF m.file = "malformed" \/ ~m.has_version THEN "raise"
    ELSE "continue"

\* Mutant: the comparison is == where the code has !=.
CrateVerdictInverted(m, ws_version) ==
    IF m.file = "missing" THEN "skip"
    ELSE IF m.file = "malformed" \/ ~m.has_version THEN "raise"
    ELSE IF IsWorkspaceReference(m.version) THEN "continue"
    ELSE IF m.version = ws_version THEN "mismatch"
    ELSE "continue"

\* Mutant: no os.path.exists test; opening the absent file raises.
CrateVerdictNoExistsTest(m, ws_version) ==
    IF m.file = "missing" \/ m.file = "malformed" \/ ~m.has_version THEN "raise"
    ELSE IF IsWorkspaceReference(m.version) THEN "continue"
    ELSE IF m.version # ws_version THEN "mismatch"
    ELSE "continue"

\* Mutant: a manifest that cannot be read is skipped like an absent one.
CrateVerdictSkipsUnreadable(m, ws_version) ==
    IF m.file = "missing" \/ m.file = "malformed" \/ ~m.has_version THEN "skip"
    ELSE IF IsWorkspaceReference(m.version) THEN "continue"
    ELSE IF m.version # ws_version THEN "mismatch"
    ELSE "continue"

\* What one pass of the loop body does with the member manifest it finds:
\* "skip" (warning), "raise", "continue", "mismatch" (print and sys.exit(1)).
CrateVerdict(m, ws_version) ==
    IF m.file = "missing" THEN "skip"
    ELSE IF m.file = "malformed" \/ ~m.has_version THEN "raise"
    ELSE IF IsWorkspaceReference(m.version) THEN "continue"
    ELSE IF m.version # ws_version THEN "mismatch"
    ELSE "continue"

\* Lines 28-45: one pass of the loop body, for crates[idx].
CheckCrate ==
    /\ script = "check-version-consistency"
    /\ pc = "for_crate"
    /\ idx <= Len(crates)
    /\ \E m \in Manifests :
         LET crate == crates[idx]
             verdict == CrateVerdict(m, workspace_version)
         IN  /\ examined' = Append(examined, m)
             /\ CASE verdict = "skip" ->
                       /\ stdout' = Append(stdout, WarningLine(crate_path(crate)))
                       /\ idx' = idx + 1
                       /\ UNCHANGED <<pc, stderr, exit_status>>
                  [] verdict = "raise" ->
                       /\ UncaughtException(IF m.file = "malformed"
                                              THEN "TomlDecodeError" ELSE "KeyError")
                       /\ UNCHANGED <<stdout, idx>>
                  [] verdict = "continue" ->
                       /\ idx' = idx + 1
                       /\ UNCHANGED <<pc, stdout, stderr, exit_status>>
                  [] verdict = "mismatch" ->
                       /\ stdout' = Append(stdout,
                              MismatchLine(crate, m.version, workspace_version))
                       /\ exit_status' = Exited(1)
                       /\ pc' = "exited"
                       /\ UNCHANGED <<stderr, idx>>
    /\ UNCHANGED <<script, workspace_version, root_manifest>>
    /\ UNCHANGED server_vars

\* Lines 47-51: the loop is over; print the success line, return 0, sys.exit(0).
AllConsistent ==
    /\ script = "check-version-consistency"
    /\ pc = "for_crate"
    /\ idx > Len(crates)
    /\ stdout' = Append(stdout, SuccessLine)
    /\ exit_status' = Exited(0)
    /\ pc' = "exited"
    /\ UNCHANGED <<script, stderr>>
    /\ UNCHANGED checker_vars
    /\ UNCHANGED server_vars

(***************************************************************************)
(* The development servers: examples/capability-showcase/serve.py,         *)
(* examples/comprehensive-demo/serve.py, examples/webgl-demo/server.py.    *)
(* Each handler class extends http.server.SimpleHTTPRequestHandler and is  *)
(* run by socketserver.TCPServer.serve_forever; what the scripts inherit   *)
(* from those two classes is modelled for requests with a well-formed      *)
(* HTTP/1.x request line.                                                  *)
(***************************************************************************)

PORT(s) == IF s = "comprehensive-demo" THEN 8080 ELSE 8000

\* Exit status of a process ended by a KeyboardInterrupt nobody catches: 1,
\* or death by SIGINT (130 to the shell), depending on the interpreter.
KeyboardInterruptStatus == {1, 130}

Methods == {"GET", "HEAD", "POST", "OPTIONS"}

Paths == {"/index.html", "/pkg/app.wasm", "/nothing"}

\* A request: its method and path, and whether the client has gone away
\* before the response is written.
Requests == [method : Methods, path : Paths, client_gone : BOOLEAN]

\* Whether the path names a file under the serving root.
FileExists(path, pkg) ==
    CASE path = "/index.html" -> TRUE
      [] path = "/pkg/app.wasm" -> pkg
      [] OTHER -> FALSE

Extension(path) ==
    CASE path = "/index.html" -> ".html"
      [] path = "/pkg/app.wasm" -> ".wasm"
      [] OTHER -> ""

\* SimpleHTTPRequestHandler.guess_type over the MIME table: the interpreter's
\* defaults plus what mimetypes.add_type registered.
guess_type(path, registered, dflt) ==
    CASE Extension(path) = ".html" -> "text/html"
      [] Extension(path) = ".wasm" ->
            IF registered \/ dflt THEN "application/wasm"
            ELSE "application/octet-stream"
      [] OTHER -> "application/octet-stream"

\* mimetypes.add_type('application/wasm', '.wasm') at import, where the script has it.
RegistersWasm(s) == s = "comprehensive-demo"

\* The status and headers the base class has sent when it calls end_headers:
\* send_head for GET and HEAD, send_error(404) for a missing file,
\* send_error(501) for a method with no do_<METHOD>.
BaseResponse(req, pkg, registered, dflt) ==
    IF req.method \notin {"GET", "HEAD"}
      THEN [status |-> 501,
            headers |-> <<<<"Server", "SimpleHTTP">>, <<"Connection", "close">>,
                          <<"Content-Type", "text/html;charset=utf-8">>>>]
    ELSE IF ~FileExists(req.path, pkg)
      THEN [status |-> 404,
            headers |-> <<<<"Server", "SimpleHTTP">>, <<"Connection", "close">>,
                          <<"Content-Type", "text/html;charset=utf-8">>>>]
    ELSE [status |-> 200,
          headers |-> <<<<"Server", "SimpleHTTP">>,
                        <<"Content-type", guess_type(req.path, registered, dflt)>>>>]

CorsHeaders ==
    <<<<"Access-Control-Allow-Origin", "*">>,
      <<"Access-Control-Allow-Methods", "GET, POST, OPTIONS">>,
      <<"Access-Control-Allow-Headers", "Content-Type">>>>

IsolationHeaders ==
    <<<<"Cross-Origin-Embedder-Policy", "require-corp">>,
      <<"Cross-Origin-Opener-Policy", "same-origin">>>>

\* Mutant: the webgl-demo handler sends its isolation headers only.
end_headersWithoutCors(s, headers) ==
    CASE s = "capability-showcase" -> headers \o CorsHeaders
      [] s = "comprehensive-demo" -> headers \o CorsHeaders
      [] s = "webgl-demo" -> headers \o IsolationHeaders
      [] OTHER -> headers

\* end_headers of each handler class: the send_header calls, in order, then
\* super().end_headers(), which closes the header section.
end_headers(s, headers) ==
    CASE s = "capability-showcase" -> headers \o CorsHeaders
      [] s = "comprehensive-demo" -> headers \o CorsHeaders
      [] s = "webgl-demo" -> headers \o IsolationHeaders \o CorsHeaders
      [] OTHER -> headers

\* The arguments log_request hands to log_message: the words of the request
\* line and the status code.
LogArgs(req, status) == [requestline |-> <<req.method, req.path, "HTTP/1.1">>,
                         code |-> status]

\* "Broken pipe" in str(args): the text spans a space, so two words in a row.
MentionsBrokenPipe(args) ==
    \E i \in 1..(Len(args.requestline) - 1) :
        args.requestline[i] = "Broken" /\ args.requestline[i + 1] = "pipe"

LogLine(args) == [line |-> "request", args |-> args]

\* log_message of each handler class: where the line for `args` goes.
\* <<lines added to stdout, lines added to stderr>>.
log_message(s, args) ==
    CASE s = "capability-showcase" ->
            IF ~MentionsBrokenPipe(args) THEN <<<<>>, <<LogLine(args)>>>>
            ELSE <<<<>>, <<>>>>
      [] s = "webgl-demo" -> <<<<LogLine(args)>>, <<>>>>
      [] OTHER -> <<<<>>, <<LogLine(args)>>>>

PkgErrorLines ==
    <<[line |-> "Error: pkg directory not found!"],
      [line |-> "Please run 'wasm-pack build --target web --out-dir pkg' first"]>>

\* Mutant: the pkg test is left out.
PkgCheckSkipped(s, pkg) == FALSE

\* capability-showcase line 32: if not os.path.exists('pkg')
PkgCheckFails(s, pkg) == s = "capability-showcase" /\ ~pkg

\* The first statements of each server script, up to the TCPServer call.
Startup ==
    /\ script \in Servers
    /\ pc = "start"
    /\ wasm_registered' = RegistersWasm(script)
    /\ CASE script = "capability-showcase" ->
              \* lines 29-35: chdir, then the pkg check
              IF PkgCheckFails(script, pkg_exists)
                THEN /\ stdout' = stdout \o PkgErrorLines
                     /\ exit_status' = Exited(1)
                     /\ pc' = "exited"
                ELSE /\ pc' = "bind"
                     /\ UNCHANGED <<stdout, exit_status>>
         [] script = "comprehensive-demo" ->
              \* lines 8, 19-20
              /\ pc' = "bind"
              /\ UNCHANGED <<stdout, exit_status>>
         [] script = "webgl-demo" ->
              \* lines 8, 27-29
              /\ stdout' = stdout \o
                   <<[line |-> "Starting server in directory"],
                     [line |-> "Files in current directory"],
                     [line |-> "Server running at", port |-> PORT(script)]>>
              /\ pc' = "bind"
              /\ UNCHANGED exit_status
    /\ UNCHANGED <<script, stderr, pkg_exists, default_wasm, listener,
                   browser_opened, responses, outcomes, interrupted_at>>
    /\ UNCHANGED checker_vars

\* socketserver.TCPServer(("", PORT), Handler): the listener is bound, or the
\* port is taken and the OSError ends the process.
Bind ==
    /\ script \in Servers
    /\ pc = "bind"
    /\ \E port_free \in BOOLEAN :
         IF port_free
           THEN /\ listener' = "bound"
                /\ pc' = IF script = "webgl-demo" THEN "serving" ELSE "announce"
                /\ UNCHANGED <<stderr, exit_status>>
           ELSE /\ UncaughtException("OSError")
                /\ UNCHANGED listener
    /\ UNCHANGED <<script, stdout, pkg_exists, default_wasm, wasm_registered,
                   browser_opened, responses, outcomes, interrupted_at>>
    /\ UNCHANGED checker_vars

\* The statements between the TCPServer call and serve_forever.
Announce ==
    /\ script \in Servers
    /\ pc = "announce"
    /\ CASE script = "capability-showcase" ->
              \* lines 39-45
              /\ stdout' = stdout \o
                   <<[line |-> "Leptos Motion Capability Showcase"],
                     [line |-> "Server running at", port |-> PORT(script)],
                     [line |-> "Opening browser..."],
                     [line |-> "Press Ctrl+C to stop"]>>
              /\ browser_opened' = TRUE
         [] OTHER ->
              \* comprehensive-demo line 23
              /\ stdout' = Append(stdout, [line |-> "Serving at", port |-> PORT(script)])
              /\ UNCHANGED browser_opened
    /\ pc' = "serving"
    /\ UNCHANGED <<script, stderr, exit_status, pkg_exists, default_wasm,
                   wasm_registered, listener, responses, outcomes, interrupted_at>>
    /\ UNCHANGED checker_vars

\* Mutant: the exception of one handler leaves the serving loop.
AfterRequestErrorLeaves == "exited"

\* Where serve_forever is after a request whose handler raised: the server
\* reports the exception (handle_error) and goes on to the next request.
AfterRequestError == "serving"

\* httpd.serve_forever(): one request, handled to its end.
HandleRequest ==
    /\ script \in Servers
    /\ pc = "serving"
    /\ Len(outcomes) < MaxRequests
    /\ \E req \in Requests :
         LET base == BaseResponse(req, pkg_exists, wasm_registered, default_wasm)
             logged == log_message(script, LogArgs(req, base.status))
             resp == [request |-> req, status |-> base.status,
                      headers |-> end_headers(script, base.headers)]
         IN  /\ stdout' = stdout \o logged[1]
             /\ IF req.client_gone
                  THEN /\ stderr' = stderr \o logged[2] \o
                            <<[line |-> "Exception occurred during processing of request",
                               exception |-> "BrokenPipeError"]>>
                       /\ outcomes' = Append(outcomes, "error")
                       /\ pc' = AfterRequestError
                       /\ UNCHANGED responses
                  ELSE /\ stderr' = stderr \o logged[2]
                       /\ outcomes' = Append(outcomes, "ok")
                       /\ responses' = Append(responses, resp)
                       /\ UNCHANGED pc
    /\ UNCHANGED <<script, exit_status, pkg_exists, default_wasm, wasm_registered,
                   listener, browser_opened, interrupted_at>>
    /\ UNCHANGED checker_vars

\* Whether the statement the process is at lies inside a try block with
\* `except KeyboardInterrupt`.
CatchesKeyboardInterrupt(s, at) ==
    /\ s \in {"capability-showcase", "webgl-demo"}
    /\ at = "serving"

\* The operator's Ctrl+C: KeyboardInterrupt is raised at the statement the
\* process is at.  Leaving the `with` block closes the listener.
KeyboardInterrupt ==
    /\ script \in Servers
    /\ exit_status = Running
    /\ interrupted_at' = pc
    /\ listener' = IF listener = "bound" THEN "closed" ELSE listener
    /\ pc' = "exited"
    /\ IF CatchesKeyboardInterrupt(script, pc)
         THEN /\ stdout' = Append(stdout, [line |-> "Server stopped"])
              /\ exit_status' = Exited(0)
              /\ UNCHANGED stderr
         ELSE /\ stderr' = Append(stderr, [line |-> "Traceback",
                                           exception |-> "KeyboardInterrupt"])
              /\ \E status \in KeyboardInterruptStatus : exit_status' = Exited(status)
              /\ UNCHANGED stdout
    /\ UNCHANGED <<script, pkg_exists, default_wasm, wasm_registered,
                   browser_opened, responses, outcomes>>
    /\ UNCHANGED checker_vars

Init ==
    /\ script \in Scripts
    /\ pc = IF script = "check-version-consistency" THEN "read_workspace" ELSE "start"
    /\ stdout = <<>>
    /\ stderr = <<>>
    /\ exit_status = Running
    /\ workspace_version = NoValue
    /\ idx = 1
    /\ examined = <<>>
    /\ root_manifest = NotRead
    /\ pkg_exists \in (IF script \in Servers THEN BOOLEAN ELSE {FALSE})
    /\ default_wasm \in (IF script \in Servers THEN BOOLEAN ELSE {FALSE})
    /\ wasm_registered = FALSE
    /\ listener = "unbound"
    /\ browser_opened = FALSE
    /\ responses = <<>>
    /\ outcomes = <<>>
    /\ interrupted_at = "never"

Next ==
    \/ ReadWorkspace
    \/ CheckCrate
    \/ AllConsistent
    \/ Startup
    \/ Bind
    \/ Announce
    \/ HandleRequest
    \/ KeyboardInterrupt

Spec == Init /\ [][Next]_vars

(***************************************************************************)
(* Properties of the version checker.                                      *)
(***************************************************************************)

IsChecker == script = "check-version-consistency"

HasVersion(m) == m.file = "parsed" /\ m.has_version

\* The member declares a literal version and it is not the workspace version.
IsLiteralMismatch(m) ==
    HasVersion(m) /\ m.version.type = "str" /\ m.version # workspace_version

IsInherited(m) == HasVersion(m) /\ m.version = TableValue({"workspace"})

\* No manifest, the inheritance marker, or the workspace version as a literal.
IsConsistent(m) ==
    \/ m.file = "missing"
    \/ IsInherited(m)
    \/ HasVersion(m) /\ m.version.type = "str" /\ m.version = workspace_version

\* Missing where that is allowed, or a manifest that parses and declares its
\* version as a string or as the inheritance marker.
WellFormedMember(m) ==
    \/ m.file = "missing"
    \/ HasVersion(m) /\ (m.version.type = "str" \/ IsInherited(m))

WellFormedRoot == HasVersion(root_manifest) /\ root_manifest.version.type = "str"

CannotBeRead(m) == m.file = "malformed" \/ (m.file = "parsed" /\ ~m.has_version)

LinesOf(kind) == {i \in 1..Len(stdout) : stdout[i].line = kind}

SuccessPrinted == LinesOf("All versions are consistent!") # {}

LastLine == stdout[Len(stdout)]

\* C1: members are examined in list order; at the first member whose manifest
\* exists and declares a literal other than the workspace version, the run
\* prints one mismatch line naming that member, its version and the workspace
\* version, exits with status 1, and examines no later member: nothing is
\* printed after the mismatch line.
C1_FailFast ==
    IsChecker =>
      /\ pc = "for_crate" => idx = Len(examined) + 1
      /\ \A k \in 1..Len(examined) :
           IsLiteralMismatch(examined[k]) =>
             /\ k = Len(examined)
             /\ pc = "exited"
             /\ exit_status = Exited(1)
             /\ Cardinality(LinesOf("Version mismatch")) = 1
             /\ LastLine = MismatchLine(crates[k], examined[k].version,
                                        workspace_version)
             /\ ~SuccessPrinted
             /\ stderr = <<>>

\* A mismatch at the fourth member, after a skipped one and consistent ones.
C1_Witness ==
    /\ IsChecker
    /\ Len(examined) = 4
    /\ IsLiteralMismatch(examined[4])
    /\ examined[1].file = "missing"
    /\ pc = "exited"

\* C2: with well-formed manifests, the run prints the success line and exits
\* with status 0 exactly when every member has no manifest, or the
\* inheritance marker, or the workspace version as a literal; otherwise it
\* prints no success line and exits with a non-zero status.
C2_SuccessIffConsistent ==
    ( /\ IsChecker
      /\ pc = "exited"
      /\ WellFormedRoot
      /\ \A k \in 1..Len(examined) : WellFormedMember(examined[k]) ) =>
        LET all_consistent == \A k \in 1..Len(examined) : IsConsistent(examined[k])
            success == SuccessPrinted /\ exit_status = Exited(0)
        IN  /\ all_consistent <=> success
            /\ success => Len(examined) = Len(crates) /\ LastLine = SuccessLine
            /\ ~all_consistent => ~SuccessPrinted /\ exit_status = Exited(1)

\* A successful run whose members are of all three consistent kinds.
C2_Witness ==
    /\ IsChecker
    /\ pc = "exited"
    /\ exit_status = Exited(0)
    /\ WellFormedRoot
    /\ \E i, j, k \in 1..Len(examined) :
         /\ examined[i].file = "missing"
         /\ IsInherited(examined[j])
         /\ HasVersion(examined[k]) /\ examined[k].version = workspace_version

\* C5: a member whose manifest file does not exist gets one warning line, the
\* loop goes on with the next member, and the run still exits with status 0
\* when every other member is consistent.
C5_SkipOnMissing ==
    IsChecker =>
      \A k \in 1..Len(examined) :
        examined[k].file = "missing" =>
          /\ Cardinality({i \in 1..Len(stdout) :
                            stdout[i] = WarningLine(crate_path(crates[k]))}) = 1
          /\ k = Len(examined) =>
               \/ pc = "for_crate" /\ idx = k + 1 /\ exit_status = Running
               \/ pc = "exited" /\ k = Len(crates) /\ exit_status = Exited(0)
          /\ ( /\ pc = "exited"
               /\ \A j \in 1..Len(examined) : j # k => IsConsistent(examined[j]) ) =>
                 exit_status = Exited(0) /\ LastLine = SuccessLine

\* A run that skipped its third member and exited with status 0.
C5_Witness ==
    /\ IsChecker
    /\ pc = "exited"
    /\ exit_status = Exited(0)
    /\ examined[3].file = "missing"
    /\ HasVersion(examined[4])

\* C6: a member whose version is the inheritance marker is consistent
\* whatever the workspace version is: no mismatch line names it, the loop
\* goes on with the next member, and the run exits with status 0 when every
\* other member is consistent.
C6_InheritedIsConsistent ==
    IsChecker =>
      \A k \in 1..Len(examined) :
        IsInherited(examined[k]) =>
          /\ \A i \in LinesOf("Version mismatch") : stdout[i].crate # crates[k]
          /\ k = Len(examined) =>
               \/ pc = "for_crate" /\ idx = k + 1 /\ exit_status = Running
               \/ pc = "exited" /\ k = Len(crates) /\ exit_status = Exited(0)
          /\ ( /\ pc = "exited"
               /\ \A j \in 1..Len(examined) : j # k => IsConsistent(examined[j]) ) =>
                 exit_status = Exited(0)

\* A run with the older workspace version, an inheriting member and status 0.
C6_Witness ==
    /\ IsChecker
    /\ pc = "exited"
    /\ exit_status = Exited(0)
    /\ workspace_version = StrValue("1.1.9")
    /\ IsInherited(examined[2])

\* C9: a run in which the root manifest is missing, malformed or without
\* workspace.package.version, or in which the manifest of a member cannot be
\* parsed or lacks its version, fails: no success line, a non-zero status.
\* When the root manifest is at fault no member is examined and nothing is
\* printed.
C9_ParseErrorsFail ==
    IsChecker =>
      /\ (root_manifest.file = "missing" \/ CannotBeRead(root_manifest)) =>
           /\ examined = <<>>
           /\ stdout = <<>>
           /\ pc = "exited"
           /\ exit_status = Exited(1)
      /\ (\E k \in 1..Len(examined) : CannotBeRead(examined[k])) =>
           /\ ~SuccessPrinted
           /\ pc = "exited"
           /\ exit_status = Exited(1)
      /\ (pc = "exited" /\ Len(examined) < Len(crates)) =>
           ~SuccessPrinted /\ exit_status = Exited(1)

\* A run ended by a member manifest without a version, after a warning.
C9_Witness ==
    /\ IsChecker
    /\ pc = "exited"
    /\ Len(examined) = 3
    /\ examined[3].file = "parsed" /\ ~examined[3].has_version
    /\ examined[1].file = "missing"

\* A run ended by the root manifest.
C9_RootWitness ==
    /\ IsChecker
    /\ pc = "exited"
    /\ root_manifest.file = "malformed"

(***************************************************************************)
(* Properties of the development servers.                                  *)
(***************************************************************************)

IsServer == script \in Servers

interrupted == interrupted_at # "never"

\* The values the response carries under the header `name`, one per line.
HeaderLines(resp, name) ==
    {i \in 1..Len(resp.headers) : resp.headers[i][1] = name}

\* The header is there, and every line under that name has that value.
HasHeader(resp, name, value) ==
    /\ HeaderLines(resp, name) # {}
    /\ \A i \in HeaderLines(resp, name) : resp.headers[i][2] = value

C4_InterruptExitsZero ==
    (IsServer /\ listener # "unbound") =>
      /\ ~interrupted => listener = "bound" /\ exit_status = Running
      /\ interrupted_at = "serving" =>
           listener = "closed" /\ exit_status = Exited(0)

\* C7: in every variant, a request for an existing file whose path ends in
\* .wasm is answered with Content-Type application/wasm, whether or not the
\* default MIME table has an entry for .wasm.
C7_WasmContentType ==
    IsServer =>
      \A i \in 1..Len(responses) :
        ( /\ responses[i].status = 200
          /\ Extension(responses[i].request.path) = ".wasm" ) =>
            HasHeader(responses[i], "Content-type", "application/wasm")

\* C8: in the capability-showcase variant, when pkg is absent the process
\* prints the error lines and exits with status 1 before the listener is
\* bound and before the browser is opened; the listener is bound only in
\* runs where pkg exists.
C8_PkgCheckBeforeBind ==
    script = "capability-showcase" =>
      /\ ~pkg_exists =>
           /\ listener = "unbound"
           /\ ~browser_opened
           /\ pc \in {"start", "exited"}
           /\ (pc = "exited" /\ ~interrupted) =>
                stdout = PkgErrorLines /\ exit_status = Exited(1)
      /\ listener # "unbound" => pkg_exists

\* The capability-showcase server has exited at its pkg check.
C8_Witness ==
    /\ script = "capability-showcase"
    /\ ~pkg_exists
    /\ pc = "exited"
    /\ ~interrupted
    /\ exit_status = Exited(1)

=============================================================================
